---- MODULE Spec2Model ----
(***************************************************************************)
(* A model of src/bulk-load.js: the BulkLoad request of a TDS driver.      *)
(* One BulkLoad instance is the state; addColumn, addRow, getColMetaData,  *)
(* getPayload and getOptionsSql are the actions.  Buffers are sequences of *)
(* bytes (0..255).  JavaScript values are tagged records.                  *)
(***************************************************************************)
EXTENDS Integers, Sequences, FiniteSets, TLC

VARIABLES
    options,          \* this.options (connection options; tdsVersion is read)
    bulkOptions,      \* this.bulkOptions
    columns,          \* this.columns
    columnsByName,    \* this.columnsByName
    rowsData,         \* this.rowsData
    firstRowWritten,  \* this.firstRowWritten
    call,             \* the last call made on the instance and its outcome
    payload,          \* what getPayload returned last, NoPayload after an addRow/addColumn call
    registered,       \* the arguments of the successful addColumn calls, in call order
    rowLog,           \* per addRow call, in call order: whether the call threw
    other             \* a second BulkLoad instance, NoOther when there is only one

vars == <<options, bulkOptions, columns, columnsByName, rowsData,
          firstRowWritten, call, payload, registered, rowLog, other>>

-----------------------------------------------------------------------------
(* Bounds of the model *)

MaxCols == 2
MaxRows == 2
MaxArgs == 2

-----------------------------------------------------------------------------
(* JavaScript values *)

Undef == [kind |-> "undef"]
Null == [kind |-> "null"]
Num(n) == [kind |-> "num", num |-> n]
Bool(b) == [kind |-> "bool", bool |-> b]
Str(s) == [kind |-> "str", str |-> s]
Arr(s) == [kind |-> "arr", elems |-> s]
Obj(f) == [kind |-> "obj", props |-> f]

\* typeof v
TypeOf(v) ==
    CASE v.kind = "undef" -> "undefined"
      [] v.kind = "null" -> "object"
      [] v.kind = "num" -> "number"
      [] v.kind = "bool" -> "boolean"
      [] v.kind = "str" -> "string"
      [] v.kind = "arr" -> "object"
      [] v.kind = "obj" -> "object"

\* the truth value of v in a condition: !v is ~Truthy(v)
Truthy(v) ==
    CASE v.kind = "undef" -> FALSE
      [] v.kind = "null" -> FALSE
      [] v.kind = "num" -> v.num # 0
      [] v.kind = "bool" -> v.bool
      [] v.kind = "str" -> v.str # ""
      [] v.kind = "arr" -> TRUE
      [] v.kind = "obj" -> TRUE

\* v == undefined, v == null (loose equality)
IsNullish(v) == v.kind \in {"undef", "null"}

\* v instanceof Array
IsArray(v) == v.kind = "arr"

\* a destructuring default: the default replaces undefined only
Default(v, d) == IF v.kind = "undef" THEN d ELSE v

\* row[i] for a JavaScript array (i counted from 0)
ArrayGet(a, i) == IF i + 1 \in DOMAIN a.elems THEN a.elems[i + 1] ELSE Undef

\* row[key] for a plain object
PropGet(o, key) == IF key \in DOMAIN o.props THEN o.props[key] ELSE Undef

-----------------------------------------------------------------------------
(* Integers as bit patterns *)

RECURSIVE BitOr(_, _)
BitOr(a, b) ==
    IF a = 0 THEN b
    ELSE IF b = 0 THEN a
    ELSE (IF a % 2 = 1 \/ b % 2 = 1 THEN 1 ELSE 0) + 2 * BitOr(a \div 2, b \div 2)

RECURSIVE BitAnd(_, _)
BitAnd(a, b) ==
    IF a = 0 \/ b = 0 THEN 0
    ELSE (IF a % 2 = 1 /\ b % 2 = 1 THEN 1 ELSE 0) + 2 * BitAnd(a \div 2, b \div 2)

UInt16LE(v) == <<v % 256, (v \div 256) % 256>>
UInt32LE(v) == <<v % 256, (v \div 256) % 256, (v \div 65536) % 256, (v \div 16777216) % 256>>

-----------------------------------------------------------------------------
(* Wire constants *)

FLAGS_nullable == 1
FLAGS_updateableReadWrite == 4
FLAGS_nullableUnknown == 32768
DONE_STATUS_FINAL == 0

TOKEN_TYPE_COLMETADATA == 129
TOKEN_TYPE_ROW == 209
TOKEN_TYPE_DONE == 253

-----------------------------------------------------------------------------
(* Strings: the UTF-16 code units of the strings the model uses, and the   *)
(* order JavaScript's < and >= put on strings (code unit by code unit).    *)

CodeUnits(s) ==
    CASE s = "a" -> <<97>>
      [] s = "b" -> <<98>>
      [] s = "k" -> <<107>>
      [] s = "7_1" -> <<55, 95, 49>>
      [] s = "7_2" -> <<55, 95, 50>>
      [] s = "7_3_A" -> <<55, 95, 51, 95, 65>>
      [] s = "7_3_B" -> <<55, 95, 51, 95, 66>>
      [] s = "7_4" -> <<55, 95, 52>>

RECURSIVE SeqLess(_, _)
SeqLess(s, t) ==
    IF t = <<>> THEN FALSE
    ELSE IF s = <<>> THEN TRUE
    ELSE IF Head(s) # Head(t) THEN Head(s) < Head(t)
    ELSE SeqLess(Tail(s), Tail(t))

\* s < t on two strings
StrLess(s, t) == SeqLess(CodeUnits(s), CodeUnits(t))
\* s >= t on two strings
StrGeq(s, t) == ~SeqLess(CodeUnits(s), CodeUnits(t))

-----------------------------------------------------------------------------
(* WritableTrackingBuffer: a growable byte buffer.  size is what has been  *)
(* allocated, in allocs allocations; data is the bytes written so far      *)
(* (what .data returns).                                                   *)

RECURSIVE Doubled(_, _)
Doubled(size, required) == IF size < required THEN Doubled(size * 2, required) ELSE size

NewBuffer(initialSize, doubleSizeGrowth) ==
    [size |-> initialSize, allocs |-> 1, data |-> <<>>, doubleSizeGrowth |-> doubleSizeGrowth]

WriteBytes(buf, bytes) ==
    LET free == buf.size - Len(buf.data)
        grown == IF buf.doubleSizeGrowth
                 THEN Len(buf.data) + Doubled(IF buf.size * 2 > 128 THEN buf.size * 2 ELSE 128, Len(bytes))
                 ELSE Len(buf.data) + Len(bytes)
    IN  [buf EXCEPT !.size = IF free < Len(bytes) THEN grown ELSE buf.size,
                    !.allocs = IF free < Len(bytes) THEN buf.allocs + 1 ELSE buf.allocs,
                    !.data = buf.data \o bytes]

WriteUInt8(buf, v) == WriteBytes(buf, <<v>>)
WriteUInt16LE(buf, v) == WriteBytes(buf, UInt16LE(v))
WriteUInt32LE(buf, v) == WriteBytes(buf, UInt32LE(v))
CopyFrom(buf, bytes) == WriteBytes(buf, bytes)

RECURSIVE Ucs2(_)
Ucs2(units) ==
    IF units = <<>> THEN <<>>
    ELSE <<Head(units) % 256, Head(units) \div 256>> \o Ucs2(Tail(units))

\* a one-byte character count, then the string in UCS-2
WriteBVarchar(buf, s) ==
    WriteBytes(WriteUInt8(buf, Len(CodeUnits(s))), Ucs2(CodeUnits(s)))

-----------------------------------------------------------------------------
(* Type descriptors: the capability objects addColumn and addRow call.     *)
(* A resolver is absent, returns a number, or throws.                      *)

NoResolver == [has |-> FALSE, throws |-> FALSE, result |-> 0]
Resolver(n) == [has |-> TRUE, throws |-> FALSE, result |-> n]
ThrowingResolver == [has |-> TRUE, throws |-> TRUE, result |-> 0]

\* TinyInt: a one-byte integer, sent as a nullable integer of length 1
TinyInt ==
    [name |-> "TinyInt", id |-> 48, hasPrecision |-> FALSE, hasScale |-> FALSE,
     resolveLength |-> NoResolver, resolvePrecision |-> NoResolver,
     resolveScale |-> NoResolver]

\* VarChar: a length-carrying type whose length resolves to 8000
VarChar ==
    [name |-> "VarChar", id |-> 167, hasPrecision |-> FALSE, hasScale |-> FALSE,
     resolveLength |-> Resolver(8000), resolvePrecision |-> NoResolver,
     resolveScale |-> NoResolver]

\* Decimal: a type with precision and scale, resolving to 18 and 0
Decimal ==
    [name |-> "Decimal", id |-> 55, hasPrecision |-> TRUE, hasScale |-> TRUE,
     resolveLength |-> NoResolver, resolvePrecision |-> Resolver(18),
     resolveScale |-> Resolver(0)]

\* a descriptor that offers the three resolvers and qualifies for none
Unqualified ==
    [name |-> "Unqualified", id |-> 48, hasPrecision |-> FALSE, hasScale |-> FALSE,
     resolveLength |-> Resolver(1), resolvePrecision |-> Resolver(2),
     resolveScale |-> Resolver(3)]

\* a descriptor that qualifies for the three resolutions and offers no resolver
Unresolving ==
    [name |-> "Unresolving", id |-> 167, hasPrecision |-> TRUE, hasScale |-> TRUE,
     resolveLength |-> NoResolver, resolvePrecision |-> NoResolver,
     resolveScale |-> NoResolver]

\* descriptors with a resolver that throws
FailingLength ==
    [name |-> "FailingLength", id |-> 167, hasPrecision |-> FALSE, hasScale |-> FALSE,
     resolveLength |-> ThrowingResolver, resolvePrecision |-> NoResolver,
     resolveScale |-> NoResolver]
FailingPrecision ==
    [name |-> "FailingPrecision", id |-> 167, hasPrecision |-> TRUE, hasScale |-> TRUE,
     resolveLength |-> Resolver(8000), resolvePrecision |-> ThrowingResolver,
     resolveScale |-> Resolver(0)]
FailingScale ==
    [name |-> "FailingScale", id |-> 55, hasPrecision |-> TRUE, hasScale |-> TRUE,
     resolveLength |-> NoResolver, resolvePrecision |-> Resolver(18),
     resolveScale |-> ThrowingResolver]

AllTypes ==
    {TinyInt, VarChar, Decimal, Unqualified, Unresolving,
     FailingLength, FailingPrecision, FailingScale}

TypeNamed(n) == CHOOSE t \in AllTypes : t.name = n

\* one byte for each of length, precision and scale that is a number
ResolvedBytes(c) ==
    (IF c.length.kind = "num" THEN <<c.length.num % 256>> ELSE <<>>)
    \o (IF c.precision.kind = "num" THEN <<c.precision.num % 256>> ELSE <<>>)
    \o (IF c.scale.kind = "num" THEN <<c.scale.num % 256>> ELSE <<>>)

\* type.writeTypeInfo(buffer, column, options); the other descriptors write
\* their id and the length, precision and scale the column has
WriteTypeInfo(type, buf, c, opts) ==
    CASE type.name = "TinyInt" -> WriteUInt8(WriteUInt8(buf, 38), 1)
      [] OTHER -> WriteBytes(WriteUInt8(buf, type.id), ResolvedBytes(c))

\* type.writeParameterData(buffer, parameter, options): the buffer afterwards
\* and whether the call threw.  TinyInt writes the length byte and then the
\* value, and the value write throws when the value is not in 0..255.
WriteParameterData(type, buf, parameter, opts) ==
    CASE type.name = "TinyInt" ->
        IF IsNullish(parameter.value)
        THEN [buf |-> WriteUInt8(buf, 0), threw |-> FALSE]
        ELSE IF parameter.value.kind = "num" /\ parameter.value.num \in 0..255
        THEN [buf |-> WriteUInt8(WriteUInt8(buf, 1), parameter.value.num), threw |-> FALSE]
        ELSE [buf |-> WriteUInt8(buf, 1), threw |-> TRUE]
      [] OTHER ->
        IF IsNullish(parameter.value)
        THEN [buf |-> WriteUInt8(buf, 0), threw |-> FALSE]
        ELSE IF parameter.value.kind = "num"
        THEN [buf |-> WriteUInt8(WriteUInt8(buf, 1), parameter.value.num % 256),
              threw |-> FALSE]
        ELSE [buf |-> buf, threw |-> TRUE]

-----------------------------------------------------------------------------
(* The inputs the model draws from *)

TdsVersions == {"7_1", "7_2", "7_3_A", "7_4"}
Names == {"a", "b"}
Types == {TinyInt}
NullableOptions == {Undef, Bool(TRUE), Bool(FALSE)}
ObjNameOptions == {Undef, Str("k")}

\* the options object of an addColumn call; an omitted property is undefined
ColumnOptions ==
    [output : {Undef}, length : {Undef}, precision : {Undef}, scale : {Undef},
     objName : ObjNameOptions, nullable : NullableOptions]

\* the options of a column read under its own name, and of one read under "k"
NoColumnOptions ==
    [output |-> Undef, length |-> Undef, precision |-> Undef, scale |-> Undef,
     objName |-> Undef, nullable |-> Undef]
RowColumns ==
    {[name |-> "a", opts |-> NoColumnOptions],
     [name |-> "b", opts |-> [NoColumnOptions EXCEPT !.objName = Str("k")]]}

\* the length, precision and scale of an addColumn call: all omitted, all
\* given, and a null length with a given precision
GivenSizes == [NoColumnOptions EXCEPT !.length = Num(10), !.precision = Num(5), !.scale = Num(2)]
NullLength == [NoColumnOptions EXCEPT !.length = Null, !.precision = Num(5)]

\* the columns whose registration runs, skips or fails a resolver
ResolveColumns ==
    {[type |-> VarChar, opts |-> NoColumnOptions],
     [type |-> VarChar, opts |-> GivenSizes],
     [type |-> Decimal, opts |-> NoColumnOptions],
     [type |-> Decimal, opts |-> NullLength],
     [type |-> Unqualified, opts |-> NoColumnOptions],
     [type |-> Unresolving, opts |-> NullLength],
     [type |-> FailingLength, opts |-> NoColumnOptions],
     [type |-> FailingLength, opts |-> GivenSizes],
     [type |-> FailingPrecision, opts |-> NoColumnOptions],
     [type |-> FailingScale, opts |-> NoColumnOptions]}

\* the values a row carries: 7 fits a TinyInt, 300 does not
Scalars == {Num(7), Num(300)}
ObjKeys == {"a", "k"}

\* the argument lists of an addRow call: scalars, null, one array, or one object
RowInputs ==
    UNION {[1..n -> Scalars] : n \in 0..MaxArgs}
    \cup {<<Null>>}
    \cup {<<Arr(s)>> : s \in UNION {[1..n -> Scalars] : n \in 0..MaxArgs}}
    \cup {<<Obj(f)>> : f \in UNION {[K -> Scalars] : K \in SUBSET ObjKeys}}

BulkOptions ==
    [checkConstraints : BOOLEAN, fireTriggers : BOOLEAN, keepNulls : BOOLEAN, lockTable : BOOLEAN]

\* payload when no getPayload result is current
NoPayload == [none |-> TRUE]

\* other when the program has made one instance only
NoOther == [none |-> TRUE]

\* what the caller can pass for one of the four bulk options
BulkOptionValues == {Undef, Bool(TRUE), Bool(FALSE), Num(1), Str("true"), Null}
GivenBulkOptions ==
    [checkConstraints : BulkOptionValues, fireTriggers : BulkOptionValues,
     keepNulls : BulkOptionValues, lockTable : BulkOptionValues]

-----------------------------------------------------------------------------
(* constructor *)

Constructed ==
    /\ columns = <<>>
    /\ columnsByName = [n \in {} |-> Undef]
    /\ rowsData = NewBuffer(1024, TRUE)
    /\ firstRowWritten = FALSE
    /\ call = [op |-> "constructor"]
    /\ payload = NoPayload
    /\ registered = <<>>
    /\ rowLog = <<>>

\* the bulk options when the caller passes {}
DefaultBulkOptions ==
    [checkConstraints |-> FALSE, fireTriggers |-> FALSE, keepNulls |-> FALSE, lockTable |-> FALSE]

\* an instance with default bulk options, on the oldest or the newest protocol
Init ==
    /\ options \in [tdsVersion : {"7_1", "7_4"}]
    /\ bulkOptions = DefaultBulkOptions
    /\ Constructed
    /\ other = NoOther

\* an instance with default bulk options, on any protocol version
InitMeta ==
    /\ options \in [tdsVersion : TdsVersions]
    /\ bulkOptions = DefaultBulkOptions
    /\ Constructed
    /\ other = NoOther

\* an instance with any bulk options, on any protocol version
InitSql ==
    /\ options \in [tdsVersion : TdsVersions]
    /\ bulkOptions \in BulkOptions
    /\ Constructed
    /\ other = NoOther

\* lines 105-119 without the check of lockTable
ConstructorThrows_skipsLockTable(given) ==
    \/ TypeOf(Default(given.checkConstraints, Bool(FALSE))) # "boolean"
    \/ TypeOf(Default(given.fireTriggers, Bool(FALSE))) # "boolean"
    \/ TypeOf(Default(given.keepNulls, Bool(FALSE))) # "boolean"

\* lines 85-90 and 105-119: after the defaults, one of the four is not a boolean
ConstructorThrows(given) ==
    \/ TypeOf(Default(given.checkConstraints, Bool(FALSE))) # "boolean"
    \/ TypeOf(Default(given.fireTriggers, Bool(FALSE))) # "boolean"
    \/ TypeOf(Default(given.keepNulls, Bool(FALSE))) # "boolean"
    \/ TypeOf(Default(given.lockTable, Bool(FALSE))) # "boolean"

\* line 121: this.bulkOptions; the property stays undefined when a check threw
ConstructedBulkOptions(given) ==
    IF ConstructorThrows(given) THEN Undef
    ELSE [checkConstraints |-> Truthy(Default(given.checkConstraints, Bool(FALSE))),
          fireTriggers |-> Truthy(Default(given.fireTriggers, Bool(FALSE))),
          keepNulls |-> Truthy(Default(given.keepNulls, Bool(FALSE))),
          lockTable |-> Truthy(Default(given.lockTable, Bool(FALSE)))]

\* new BulkLoad(table, connectionOptions, given, callback), with any values
\* for the four options: the instance, or the type error and no instance
InitCtor ==
    \E given \in GivenBulkOptions :
        /\ options = [tdsVersion |-> "7_4"]
        /\ bulkOptions = ConstructedBulkOptions(given)
        /\ columns = <<>>
        /\ columnsByName = [n \in {} |-> Undef]
        /\ rowsData = NewBuffer(1024, TRUE)
        /\ firstRowWritten = FALSE
        /\ call = [op |-> "constructor", threw |-> ConstructorThrows(given),
                   error |-> IF ConstructorThrows(given) THEN "TypeError" ELSE "none",
                   given |-> given]
        /\ payload = NoPayload
        /\ registered = <<>>
        /\ rowLog = <<>>
        /\ other = NoOther

\* the constructor returned an instance
HasInstance == bulkOptions # Undef

-----------------------------------------------------------------------------
(* addColumn *)

\* lines 129-139: the column object before the resolvers run
NewColumn(name, type, opts) ==
    [type |-> type.name,
     name |-> name,
     value |-> Null,
     output |-> Default(opts.output, Bool(FALSE)),
     length |-> opts.length,
     precision |-> opts.precision,
     scale |-> opts.scale,
     objName |-> Default(opts.objName, Str(name)),
     nullable |-> Default(opts.nullable, Bool(TRUE))]

\* (type.id & 0x30) === 0x20
IsLengthCarrying(type) == BitAnd(type.id, 48) = 32

\* lines 141-145 without the test of column.length
ResolveLengthStep_always(type, r) ==
    IF ~r.threw /\ IsLengthCarrying(type) /\ type.resolveLength.has
    THEN IF type.resolveLength.throws
         THEN [r EXCEPT !.threw = TRUE, !.invoked = Append(@, "length")]
         ELSE [r EXCEPT !.c.length = Num(type.resolveLength.result),
                        !.invoked = Append(@, "length")]
    ELSE r

\* lines 141-145; r is [c |-> column, threw |-> BOOLEAN, invoked |-> the
\* resolvers called so far]
ResolveLengthStep(type, r) ==
    IF ~r.threw /\ IsLengthCarrying(type) /\ IsNullish(r.c.length) /\ type.resolveLength.has
    THEN IF type.resolveLength.throws
         THEN [r EXCEPT !.threw = TRUE, !.invoked = Append(@, "length")]
         ELSE [r EXCEPT !.c.length = Num(type.resolveLength.result),
                        !.invoked = Append(@, "length")]
    ELSE r

\* lines 147-151
ResolvePrecisionStep(type, r) ==
    IF ~r.threw /\ type.hasPrecision /\ IsNullish(r.c.precision) /\ type.resolvePrecision.has
    THEN IF type.resolvePrecision.throws
         THEN [r EXCEPT !.threw = TRUE, !.invoked = Append(@, "precision")]
         ELSE [r EXCEPT !.c.precision = Num(type.resolvePrecision.result),
                        !.invoked = Append(@, "precision")]
    ELSE r

\* lines 153-157
ResolveScaleStep(type, r) ==
    IF ~r.threw /\ type.hasScale /\ IsNullish(r.c.scale) /\ type.resolveScale.has
    THEN IF type.resolveScale.throws
         THEN [r EXCEPT !.threw = TRUE, !.invoked = Append(@, "scale")]
         ELSE [r EXCEPT !.c.scale = Num(type.resolveScale.result),
                        !.invoked = Append(@, "scale")]
    ELSE r

ResolvedColumn(name, type, opts) ==
    ResolveScaleStep(type,
        ResolvePrecisionStep(type,
            ResolveLengthStep(type, [c |-> NewColumn(name, type, opts), threw |-> FALSE,
                                     invoked |-> <<>>])))

\* the record of an addColumn call: its arguments, its outcome and the
\* resolvers it called
AddColumnCall(name, type, opts, error, invoked) ==
    [op |-> "addColumn", threw |-> error # "none", error |-> error,
     args |-> [name |-> name, type |-> type.name, opts |-> opts], invoked |-> invoked]

\* addColumn without the check of line 125
AddColumnRejected_never == FALSE

\* line 125: the call is rejected once a row has been written
AddColumnRejected == firstRowWritten

\* unshift in place of the push of line 159
PushColumn_atFront(cols, c) == <<c>> \o cols

\* line 159: this.columns.push(column)
PushColumn(cols, c) == Append(cols, c)

\* line 161 assigning only when the name is not in the index yet
IndexColumn_keepFirst(byName, name, c) ==
    [n \in DOMAIN byName \cup {name} |-> IF n \in DOMAIN byName THEN byName[n] ELSE c]

\* line 161: this.columnsByName[name] = column
IndexColumn(byName, name, c) ==
    [n \in DOMAIN byName \cup {name} |-> IF n = name THEN c ELSE byName[n]]

\* addColumn with the push of line 159 moved in front of the resolvers
AddColumn_pushBeforeResolve(name, type, opts) ==
    LET r == ResolvedColumn(name, type, opts) IN
    /\ Len(registered) < MaxCols \/ firstRowWritten
    /\ IF AddColumnRejected
       THEN /\ call' = AddColumnCall(name, type, opts, "state", <<>>)
            /\ UNCHANGED <<columns, columnsByName, registered>>
       ELSE IF r.threw
       THEN /\ columns' = PushColumn(columns, r.c)
            /\ call' = AddColumnCall(name, type, opts, "type", r.invoked)
            /\ UNCHANGED <<columnsByName, registered>>
       ELSE /\ columns' = PushColumn(columns, r.c)
            /\ columnsByName' = IndexColumn(columnsByName, name, r.c)
            /\ registered' = Append(registered, [name |-> name, type |-> type.name, opts |-> opts])
            /\ call' = AddColumnCall(name, type, opts, "none", r.invoked)
    /\ payload' = NoPayload
    /\ UNCHANGED <<options, bulkOptions, rowsData, firstRowWritten, rowLog>>

\* addColumn with the check of line 125 moved behind the push of line 159
AddColumn_checkAfterPush(name, type, opts) ==
    LET r == ResolvedColumn(name, type, opts) IN
    /\ Len(registered) < MaxCols \/ firstRowWritten
    /\ IF r.threw
       THEN /\ call' = AddColumnCall(name, type, opts, "type", r.invoked)
            /\ UNCHANGED <<columns, columnsByName, registered>>
       ELSE IF AddColumnRejected
       THEN /\ columns' = PushColumn(columns, r.c)
            /\ call' = AddColumnCall(name, type, opts, "state", r.invoked)
            /\ UNCHANGED <<columnsByName, registered>>
       ELSE /\ columns' = PushColumn(columns, r.c)
            /\ columnsByName' = IndexColumn(columnsByName, name, r.c)
            /\ registered' = Append(registered, [name |-> name, type |-> type.name, opts |-> opts])
            /\ call' = AddColumnCall(name, type, opts, "none", r.invoked)
    /\ payload' = NoPayload
    /\ UNCHANGED <<options, bulkOptions, rowsData, firstRowWritten, rowLog>>

AddColumn(name, type, opts) ==
    LET r == ResolvedColumn(name, type, opts) IN
    /\ Len(registered) < MaxCols \/ firstRowWritten
    /\ IF AddColumnRejected
       THEN /\ call' = AddColumnCall(name, type, opts, "state", <<>>)
            /\ UNCHANGED <<columns, columnsByName, registered>>
       ELSE IF r.threw
       THEN /\ call' = AddColumnCall(name, type, opts, "type", r.invoked)
            /\ UNCHANGED <<columns, columnsByName, registered>>
       ELSE /\ columns' = PushColumn(columns, r.c)
            /\ columnsByName' = IndexColumn(columnsByName, name, r.c)
            /\ registered' = Append(registered, [name |-> name, type |-> type.name, opts |-> opts])
            /\ call' = AddColumnCall(name, type, opts, "none", r.invoked)
    /\ payload' = NoPayload
    /\ UNCHANGED <<options, bulkOptions, rowsData, firstRowWritten, rowLog>>

-----------------------------------------------------------------------------
(* addRow *)

\* input[0]
FirstArg(input) == IF Len(input) >= 1 THEN input[1] ELSE Undef

\* line 168: the arguments themselves are the row
InputIsRow(input) ==
    Len(input) > 1 \/ ~Truthy(FirstArg(input)) \/ TypeOf(FirstArg(input)) # "object"

\* lines 167-172
RowOf(input) == IF InputIsRow(input) THEN Arr(input) ELSE input[1]

\* the by-name lookup of line 195 under the column's name
ColumnValue_underName(row, c, i) ==
    IF IsArray(row) THEN ArrayGet(row, i) ELSE PropGet(row, c.name)

\* lines 185 and 195: the value of column number i (from 0) in the row
ColumnValue(row, c, i) ==
    IF IsArray(row) THEN ArrayGet(row, i) ELSE PropGet(row, c.objName.str)

\* lines 178-198: encode the columns from number i on, stopping where an
\* encoder throws; values are the values handed to the encoders
RECURSIVE WriteColumns(_, _, _, _, _, _)
WriteColumns(buf, cols, row, i, values, opts) ==
    IF i >= Len(cols)
    THEN [buf |-> buf, threw |-> FALSE, values |-> values]
    ELSE LET c == cols[i + 1]
             v == ColumnValue(row, c, i)
             w == WriteParameterData(TypeNamed(c.type), buf,
                      [length |-> c.length, scale |-> c.scale,
                       precision |-> c.precision, value |-> v], opts)
         IN  IF w.threw
             THEN [buf |-> w.buf, threw |-> TRUE, values |-> Append(values, v)]
             ELSE WriteColumns(w.buf, cols, row, i + 1, Append(values, v), opts)

\* line 165
LatchAfterAddRow == TRUE

\* addRow with line 165 moved to the end of the method
AddRow_latchLast(input) ==
    LET w == WriteColumns(WriteUInt8(rowsData, TOKEN_TYPE_ROW), columns,
                          RowOf(input), 0, <<>>, options)
    IN  /\ Len(rowLog) < MaxRows
        /\ firstRowWritten' = (firstRowWritten \/ ~w.threw)
        /\ rowsData' = w.buf
        /\ rowLog' = Append(rowLog, w.threw)
        /\ call' = [op |-> "addRow", threw |-> w.threw, input |-> input, values |-> w.values]
        /\ payload' = NoPayload
        /\ UNCHANGED <<options, bulkOptions, columns, columnsByName, registered>>

AddRow(input) ==
    LET w == WriteColumns(WriteUInt8(rowsData, TOKEN_TYPE_ROW), columns,
                          RowOf(input), 0, <<>>, options)
    IN  /\ Len(rowLog) < MaxRows
        /\ firstRowWritten' = LatchAfterAddRow
        /\ rowsData' = w.buf
        /\ rowLog' = Append(rowLog, w.threw)
        /\ call' = [op |-> "addRow", threw |-> w.threw, input |-> input, values |-> w.values]
        /\ payload' = NoPayload
        /\ UNCHANGED <<options, bulkOptions, columns, columnsByName, registered>>

-----------------------------------------------------------------------------
(* getColMetaData *)

\* lines 306-312
ColumnFlags(c, opts) ==
    IF Truthy(c.nullable)
    THEN BitOr(FLAGS_updateableReadWrite, FLAGS_nullable)
    ELSE IF c.nullable.kind = "undef" /\ StrGeq(opts.tdsVersion, "7_2")
    THEN BitOr(FLAGS_updateableReadWrite, FLAGS_nullableUnknown)
    ELSE FLAGS_updateableReadWrite

\* lines 299-319: the entry of one column, appended to tBuf
WriteColumnEntry(tBuf, c, opts) ==
    LET userType == IF StrLess(opts.tdsVersion, "7_2")
                    THEN WriteUInt16LE(tBuf, 0)
                    ELSE WriteUInt32LE(tBuf, 0)
        flags == WriteUInt16LE(userType, ColumnFlags(c, opts))
        typeInfo == WriteTypeInfo(TypeNamed(c.type), flags, c, opts)
    IN  WriteBVarchar(typeInfo, c.name)

RECURSIVE WriteColumnEntries(_, _, _, _)
WriteColumnEntries(tBuf, cols, j, opts) ==
    IF j >= Len(cols) THEN tBuf
    ELSE WriteColumnEntries(WriteColumnEntry(tBuf, cols[j + 1], opts), cols, j + 1, opts)

\* lines 290-322: the bytes getColMetaData returns
ColMetaData(cols, opts) ==
    WriteColumnEntries(
        WriteUInt16LE(WriteUInt8(NewBuffer(100, TRUE), TOKEN_TYPE_COLMETADATA), Len(cols)),
        cols, 0, opts).data

GetColMetaData ==
    /\ call' = [op |-> "getColMetaData", threw |-> FALSE, result |-> ColMetaData(columns, options)]
    /\ UNCHANGED <<options, bulkOptions, columns, columnsByName, rowsData,
                   firstRowWritten, payload, registered, rowLog>>

-----------------------------------------------------------------------------
(* getPayload *)

\* line 269 with <= in place of <
DoneTokenSize_upTo72(opts) == IF ~StrLess("7_2", opts.tdsVersion) THEN 9 ELSE 13

\* line 269: the size the DONE token's buffer is allocated with
DoneTokenSize(opts) == IF StrLess(opts.tdsVersion, "7_2") THEN 9 ELSE 13

\* lines 269-277 with the number of rows written in the row count
DoneToken_countsRows(opts) ==
    LET t1 == WriteUInt8(NewBuffer(DoneTokenSize(opts), FALSE), TOKEN_TYPE_DONE)
        t2 == WriteUInt16LE(t1, DONE_STATUS_FINAL)
        t3 == WriteUInt16LE(t2, 0)
        t4 == WriteUInt32LE(t3, Cardinality({i \in DOMAIN rowLog : ~rowLog[i]}))
    IN  IF StrGeq(opts.tdsVersion, "7_2") THEN WriteUInt32LE(t4, 0) ELSE t4

\* lines 269-277: the DONE token's buffer after the writes
DoneToken(opts) ==
    LET t1 == WriteUInt8(NewBuffer(DoneTokenSize(opts), FALSE), TOKEN_TYPE_DONE)
        t2 == WriteUInt16LE(t1, DONE_STATUS_FINAL)
        t3 == WriteUInt16LE(t2, 0)
        t4 == WriteUInt32LE(t3, 0)
    IN  IF StrGeq(opts.tdsVersion, "7_2") THEN WriteUInt32LE(t4, 0) ELSE t4

\* the length without line 280
PayloadLength_withoutDone(metaData, rows, done) == Len(metaData) + Len(rows)

\* lines 261, 265, 280: the length the payload is allocated with
PayloadLength(metaData, rows, done) == Len(metaData) + Len(rows) + Len(done)

\* lines 283-286
AssemblePayload(metaData, rows, done) ==
    CopyFrom(CopyFrom(CopyFrom(
        NewBuffer(PayloadLength(metaData, rows, done), FALSE), metaData), rows), done)

\* getPayload that empties the row buffer it has read
GetPayload_consumesRows ==
    LET metaData == ColMetaData(columns, options)
        rows == rowsData.data
        tBuf == DoneToken(options)
        done == tBuf.data
    IN  /\ payload' = [none |-> FALSE,
                       repeated |-> ~payload.none,
                       buffer |-> AssemblePayload(metaData, rows, done),
                       length |-> PayloadLength(metaData, rows, done),
                       metaData |-> metaData, rows |-> rows, tBuf |-> tBuf]
        /\ call' = [op |-> "getPayload", threw |-> FALSE]
        /\ rowsData' = NewBuffer(1024, TRUE)
        /\ UNCHANGED <<options, bulkOptions, columns, columnsByName,
                       firstRowWritten, registered, rowLog>>

\* getPayload that sets the first-row-written latch
GetPayload_freezes ==
    LET metaData == ColMetaData(columns, options)
        rows == rowsData.data
        tBuf == DoneToken(options)
        done == tBuf.data
    IN  /\ payload' = [none |-> FALSE,
                       repeated |-> ~payload.none,
                       buffer |-> AssemblePayload(metaData, rows, done),
                       length |-> PayloadLength(metaData, rows, done),
                       metaData |-> metaData, rows |-> rows, tBuf |-> tBuf]
        /\ call' = [op |-> "getPayload", threw |-> FALSE]
        /\ firstRowWritten' = TRUE
        /\ UNCHANGED <<options, bulkOptions, columns, columnsByName, rowsData,
                       registered, rowLog>>

GetPayload ==
    LET metaData == ColMetaData(columns, options)
        rows == rowsData.data
        tBuf == DoneToken(options)
        done == tBuf.data
    IN  /\ payload' = [none |-> FALSE,
                       repeated |-> ~payload.none,
                       buffer |-> AssemblePayload(metaData, rows, done),
                       length |-> PayloadLength(metaData, rows, done),
                       metaData |-> metaData, rows |-> rows, tBuf |-> tBuf]
        /\ call' = [op |-> "getPayload", threw |-> FALSE]
        /\ UNCHANGED <<options, bulkOptions, columns, columnsByName, rowsData,
                       firstRowWritten, registered, rowLog>>

-----------------------------------------------------------------------------
(* getOptionsSql *)

\* lines 202-218 with the last two options in the other order
AddOptions_tablockFirst(b) ==
    (IF b.checkConstraints THEN <<"CHECK_CONSTRAINTS">> ELSE <<>>)
    \o (IF b.fireTriggers THEN <<"FIRE_TRIGGERS">> ELSE <<>>)
    \o (IF b.lockTable THEN <<"TABLOCK">> ELSE <<>>)
    \o (IF b.keepNulls THEN <<"KEEP_NULLS">> ELSE <<>>)

\* lines 202-218: the names of the options that are set
AddOptions(b) ==
    (IF b.checkConstraints THEN <<"CHECK_CONSTRAINTS">> ELSE <<>>)
    \o (IF b.fireTriggers THEN <<"FIRE_TRIGGERS">> ELSE <<>>)
    \o (IF b.keepNulls THEN <<"KEEP_NULLS">> ELSE <<>>)
    \o (IF b.lockTable THEN <<"TABLOCK">> ELSE <<>>)

\* Array.prototype.join
RECURSIVE Join(_, _)
Join(strs, sep) ==
    IF strs = <<>> THEN ""
    ELSE IF Len(strs) = 1 THEN strs[1]
    ELSE strs[1] \o sep \o Join(Tail(strs), sep)

\* lines 220-224
OptionsSql(b) ==
    IF Len(AddOptions(b)) > 0
    THEN " WITH (" \o Join(AddOptions(b), ",") \o ")"
    ELSE ""

GetOptionsSql ==
    /\ call' = [op |-> "getOptionsSql", threw |-> FALSE, result |-> OptionsSql(bulkOptions)]
    /\ UNCHANGED <<options, bulkOptions, columns, columnsByName, rowsData,
                   firstRowWritten, payload, registered, rowLog>>

-----------------------------------------------------------------------------

(* A second instance.  other holds the fields of a second BulkLoad object;
   its methods are the methods above with this bound to that object. *)

\* lines 93-103 and 121: the second object after its construction
NewOther(opts, bulk) ==
    [none |-> FALSE,
     options |-> opts,
     bulkOptions |-> bulk,
     columns |-> <<>>,
     columnsByName |-> [n \in {} |-> Undef],
     rowsData |-> NewBuffer(1024, TRUE),
     firstRowWritten |-> FALSE,
     call |-> [op |-> "constructor"],
     payload |-> NoPayload,
     rowLog |-> <<>>]

\* line 125 reading a latch that the two objects share
OtherAddColumnRejected_shared == other.firstRowWritten \/ firstRowWritten

\* line 125 on the second object
OtherAddColumnRejected == other.firstRowWritten

\* lines 124-162 on the second object: the object after addColumn
OtherAfterAddColumn(name, type, opts) ==
    LET r == ResolvedColumn(name, type, opts) IN
    IF OtherAddColumnRejected
    THEN [other EXCEPT !.call = AddColumnCall(name, type, opts, "state", <<>>),
                       !.payload = NoPayload]
    ELSE IF r.threw
    THEN [other EXCEPT !.call = AddColumnCall(name, type, opts, "type", r.invoked),
                       !.payload = NoPayload]
    ELSE [other EXCEPT !.columns = PushColumn(@, r.c),
                       !.columnsByName = IndexColumn(@, name, r.c),
                       !.call = AddColumnCall(name, type, opts, "none", r.invoked),
                       !.payload = NoPayload]

\* lines 164-199 on the second object: the object after addRow
OtherAfterAddRow(input) ==
    LET w == WriteColumns(WriteUInt8(other.rowsData, TOKEN_TYPE_ROW), other.columns,
                          RowOf(input), 0, <<>>, other.options)
    IN  [other EXCEPT !.firstRowWritten = LatchAfterAddRow,
                      !.rowsData = w.buf,
                      !.rowLog = Append(@, w.threw),
                      !.call = [op |-> "addRow", threw |-> w.threw, input |-> input,
                                values |-> w.values],
                      !.payload = NoPayload]

\* getPayload on the second object with keepNulls in the DONE token's status
OtherAfterGetPayload_statusFromOptions ==
    LET metaData == ColMetaData(other.columns, other.options)
        rows == other.rowsData.data
        tBuf == DoneToken(other.options)
        done == [i \in DOMAIN tBuf.data |->
                    IF i = 2 /\ other.bulkOptions.keepNulls THEN 1 ELSE tBuf.data[i]]
    IN  [other EXCEPT !.payload = [none |-> FALSE,
                                   repeated |-> ~other.payload.none,
                                   buffer |-> AssemblePayload(metaData, rows, done),
                                   length |-> PayloadLength(metaData, rows, done),
                                   metaData |-> metaData, rows |-> rows, tBuf |-> tBuf],
                      !.call = [op |-> "getPayload", threw |-> FALSE]]

\* lines 258-288 on the second object: the object after getPayload
OtherAfterGetPayload ==
    LET metaData == ColMetaData(other.columns, other.options)
        rows == other.rowsData.data
        tBuf == DoneToken(other.options)
        done == tBuf.data
    IN  [other EXCEPT !.payload = [none |-> FALSE,
                                   repeated |-> ~other.payload.none,
                                   buffer |-> AssemblePayload(metaData, rows, done),
                                   length |-> PayloadLength(metaData, rows, done),
                                   metaData |-> metaData, rows |-> rows, tBuf |-> tBuf],
                      !.call = [op |-> "getPayload", threw |-> FALSE]]

\* a call on the second object leaves the fields of the first as they are
FirstUnchanged ==
    UNCHANGED <<options, bulkOptions, columns, columnsByName, rowsData, firstRowWritten,
                call, payload, registered, rowLog>>

OtherAddColumn(name, type, opts) ==
    /\ Len(other.columns) < MaxCols \/ other.firstRowWritten
    /\ other' = OtherAfterAddColumn(name, type, opts)
    /\ FirstUnchanged

OtherAddRow(input) ==
    /\ Len(other.rowLog) < MaxRows
    /\ other' = OtherAfterAddRow(input)
    /\ FirstUnchanged

OtherGetPayload ==
    /\ other' = OtherAfterGetPayload
    /\ FirstUnchanged

-----------------------------------------------------------------------------

\* columns that differ in name and objName, rows of every shape
Next ==
    \/ /\ \E col \in RowColumns, type \in Types : AddColumn(col.name, type, col.opts)
       /\ UNCHANGED other
    \/ /\ \E input \in RowInputs : AddRow(input)
       /\ UNCHANGED other
    \/ /\ GetColMetaData
       /\ UNCHANGED other
    \/ /\ GetPayload
       /\ UNCHANGED other

Spec == Init /\ [][Next]_vars

\* columns with every combination of options, no rows
NextMeta ==
    \/ /\ \E name \in Names, type \in Types, opts \in ColumnOptions :
             AddColumn(name, type, opts)
       /\ UNCHANGED other
    \/ /\ GetColMetaData
       /\ UNCHANGED other
    \/ /\ GetPayload
       /\ UNCHANGED other

SpecMeta == InitMeta /\ [][NextMeta]_vars

\* the SQL text of every combination of bulk options
NextSql ==
    \/ /\ GetOptionsSql
       /\ UNCHANGED other
    \/ /\ GetPayload
       /\ UNCHANGED other

SpecSql == InitSql /\ [][NextSql]_vars

\* construction with any values for the bulk options; calls need an instance
NextCtor ==
    \/ /\ HasInstance
       /\ GetOptionsSql
       /\ UNCHANGED other
    \/ /\ HasInstance
       /\ GetPayload
       /\ UNCHANGED other

SpecCtor == InitCtor /\ [][NextCtor]_vars

\* an instance with default bulk options on protocol version 7_4
InitResolve ==
    /\ options = [tdsVersion |-> "7_4"]
    /\ bulkOptions = DefaultBulkOptions
    /\ Constructed
    /\ other = NoOther

\* columns of the descriptors with resolvers, rows without values
NextResolve ==
    \/ /\ \E col \in ResolveColumns : AddColumn("a", col.type, col.opts)
       /\ UNCHANGED other
    \/ /\ AddRow(<<>>)
       /\ UNCHANGED other
    \/ /\ GetPayload
       /\ UNCHANGED other

SpecResolve == InitResolve /\ [][NextResolve]_vars

\* the rows of the specifications with two objects: a value that fits, one
\* that does not, and an object
TwoRowInputs == {<<Num(7)>>, <<Num(300)>>, <<Obj([k \in {"k"} |-> Num(7)])>>}

\* two objects on the same connection options, the first with the default
\* bulk options and the second with any others
InitTwin ==
    /\ options \in [tdsVersion : {"7_1", "7_4"}]
    /\ bulkOptions = DefaultBulkOptions
    /\ Constructed
    /\ \E bulk \in BulkOptions \ {DefaultBulkOptions} : other = NewOther(options, bulk)

\* every call is made on both objects with the same arguments
NextTwin ==
    \/ \E col \in RowColumns, type \in Types :
          /\ AddColumn(col.name, type, col.opts)
          /\ other' = OtherAfterAddColumn(col.name, type, col.opts)
    \/ \E input \in TwoRowInputs :
          /\ AddRow(input)
          /\ other' = OtherAfterAddRow(input)
    \/ /\ GetPayload
       /\ other' = OtherAfterGetPayload

SpecTwin == InitTwin /\ [][NextTwin]_vars

\* two objects with the default bulk options on protocol version 7_4
InitTwo ==
    /\ options = [tdsVersion |-> "7_4"]
    /\ bulkOptions = DefaultBulkOptions
    /\ Constructed
    /\ other = NewOther(options, DefaultBulkOptions)

\* the calls on the two objects in any order
NextTwo ==
    \/ /\ AddColumn("a", TinyInt, NoColumnOptions)
       /\ UNCHANGED other
    \/ /\ \E input \in TwoRowInputs : AddRow(input)
       /\ UNCHANGED other
    \/ /\ GetPayload
       /\ UNCHANGED other
    \/ OtherAddColumn("a", TinyInt, NoColumnOptions)
    \/ \E input \in TwoRowInputs : OtherAddRow(input)
    \/ OtherGetPayload

SpecTwo == InitTwo /\ [][NextTwo]_vars

-----
(* Properties *)

\* C1: once addRow has been called, the first-row-written latch stays true
\* and every later addColumn call fails with the state error.
C1_FrozenAfterAddRow ==
    [][Len(rowLog) > 0 =>
          /\ firstRowWritten
          /\ firstRowWritten'
          /\ (call'.op = "addColumn" => call'.threw /\ call'.error = "state")]_vars

\* an addColumn call was rejected after two addRow calls
C1_Witness ==
    /\ Len(rowLog) = 2
    /\ call.op = "addColumn"
    /\ call.threw
    /\ firstRowWritten

\* C3: an addColumn call rejected because a row was written leaves the column
\* list, the by-name index, the row buffer and the latch as they were.
C3_RejectedAddColumnChangesNothing ==
    [][(call'.op = "addColumn" /\ call'.threw /\ call'.error = "state") =>
          UNCHANGED <<columns, columnsByName, rowsData, firstRowWritten>>]_vars

\* an addColumn call was rejected on an instance that has columns and row bytes
C3_Witness ==
    /\ call.op = "addColumn"
    /\ call.threw
    /\ call.error = "state"
    /\ Len(columns) = 2
    /\ DOMAIN columnsByName = {"a", "b"}
    /\ Len(rowsData.data) > 1

\* the bytes of one TinyInt value at the head of bytes: 0 for null, 1 and
\* the value otherwise; 0 bytes when there is no value there
TinyIntValueLength(bytes) ==
    IF bytes = <<>> THEN 0
    ELSE IF bytes[1] = 0 THEN 1
    ELSE IF bytes[1] = 1 /\ Len(bytes) >= 2 THEN 2
    ELSE 0

\* bytes starts with n encoded values; what follows them, or <<-1>>
RECURSIVE SkipValues(_, _)
SkipValues(bytes, n) ==
    IF n = 0 THEN bytes
    ELSE IF TinyIntValueLength(bytes) = 0 THEN <<-1>>
    ELSE SkipValues(SubSeq(bytes, TinyIntValueLength(bytes) + 1, Len(bytes)), n - 1)

\* bytes is a sequence of rows: a row marker, then one value per column
RECURSIVE CompleteRows(_, _)
CompleteRows(bytes, n) ==
    IF bytes = <<>> THEN TRUE
    ELSE /\ bytes[1] = TOKEN_TYPE_ROW
         /\ CompleteRows(SkipValues(Tail(bytes), n), n)

\* C2: after an addRow that failed in an encoder and a later successful
\* addRow, the row bytes getPayload returns hold complete rows only.
C2_NoPartialRowObservable ==
    (/\ payload.none = FALSE
     /\ \E i, j \in DOMAIN rowLog : i < j /\ rowLog[i] /\ ~rowLog[j])
    => CompleteRows(payload.rows, Len(columns))

\* C5: getPayload succeeds and returns the metadata token, the row bytes and
\* the completion token in that order, in a buffer allocated once with the
\* sum of the three lengths.
C5_PayloadIsConcatenation ==
    call.op = "getPayload" =>
        /\ ~call.threw
        /\ payload.buffer.data =
               ColMetaData(columns, options) \o rowsData.data \o DoneToken(options).data
        /\ payload.length =
               Len(ColMetaData(columns, options)) + Len(rowsData.data) + Len(DoneToken(options).data)
        /\ Len(payload.buffer.data) = payload.length
        /\ payload.buffer.size = payload.length
        /\ payload.buffer.allocs = 1

\* getPayload returned a payload with columns and rows in it
C5_Witness ==
    /\ call.op = "getPayload"
    /\ Len(columns) = 2
    /\ Len(rowLog) = 2
    /\ Len(payload.rows) > 2
    /\ Len(payload.buffer.data) > Len(payload.rows) + Len(payload.metaData)

\* C6: a getPayload call made while the result of an earlier one is current
\* (no addRow and no addColumn call since) returns the same bytes.
C6_GetPayloadIdempotent ==
    [][(payload.none = FALSE /\ call'.op = "getPayload") =>
          payload'.buffer.data = payload.buffer.data]_vars

\* getPayload was called a second time with rows in the buffer
C6_Witness ==
    /\ call.op = "getPayload"
    /\ payload.none = FALSE
    /\ payload.repeated
    /\ Len(payload.rows) > 0
    /\ Len(columns) > 0

\* element number i (from 1) of a sequence of values, undefined beyond its end
ElementOrUndef(elems, i) == IF i \in DOMAIN elems THEN elems[i] ELSE Undef

\* property key of an object, undefined when the object has no such key
PropertyOrUndef(props, key) == IF key \in DOMAIN props THEN props[key] ELSE Undef

\* the encoders were handed expected[i] for every column i they were called for
HandedOver(values, expected) ==
    /\ Len(values) <= Len(expected)
    /\ \A i \in DOMAIN values : values[i] = expected[i]

\* C9 as stated: the arguments are the positional values exactly when there
\* is more than one argument or the single argument is not an object (an
\* array is an object, null is taken not to be one); otherwise the single
\* argument is a mapping read under each column's objName.
C9_PositionalUnlessSingleObject ==
    (call.op = "addRow" /\ Len(call.input) >= 1) =>
        IF Len(call.input) > 1 \/ call.input[1].kind \notin {"arr", "obj"}
        THEN HandedOver(call.values,
                 [i \in DOMAIN columns |-> ElementOrUndef(call.input, i)])
        ELSE HandedOver(call.values,
                 [i \in DOMAIN columns |->
                     IF call.input[1].kind = "obj"
                     THEN PropertyOrUndef(call.input[1].props, columns[i].objName.str)
                     ELSE Undef])

\* C9 amended: the arguments are the positional values when there is more than
\* one argument or the single argument is missing, null or not an object; a
\* single array argument is the positional sequence itself; only a single
\* non-array object is a mapping read under each column's objName.
C9_RowShape ==
    call.op = "addRow" =>
        HandedOver(call.values,
            [i \in DOMAIN columns |->
                IF Len(call.input) = 1 /\ call.input[1].kind = "arr"
                THEN ElementOrUndef(call.input[1].elems, i)
                ELSE IF Len(call.input) = 1 /\ call.input[1].kind = "obj"
                THEN PropertyOrUndef(call.input[1].props, columns[i].objName.str)
                ELSE ElementOrUndef(call.input, i)])

\* addRow read a mapping under an objName that is not the column's name
C9_Witness ==
    /\ call.op = "addRow"
    /\ Len(call.input) = 1
    /\ call.input[1].kind = "obj"
    /\ Len(columns) = 2
    /\ columns[2].objName.str # columns[2].name
    /\ Len(call.values) = 2
    /\ call.values[2] = Num(7)

\* the width of the user type field on a protocol version
UserTypeWidth(version) == IF version = "7_1" THEN 2 ELSE 4

\* the per-column entries of a metadata token, read back from its bytes from
\* position pos on: the flags, the two bytes of type information and the name
RECURSIVE ReadEntries(_, _, _)
ReadEntries(bytes, pos, width) ==
    IF pos + width + 4 > Len(bytes) THEN <<>>
    ELSE LET chars == bytes[pos + width + 4]
         IN  <<[flags |-> bytes[pos + width] + 256 * bytes[pos + width + 1],
                typeInfo |-> SubSeq(bytes, pos + width + 2, pos + width + 3),
                name |-> SubSeq(bytes, pos + width + 5, pos + width + 4 + 2 * chars)]>>
             \o ReadEntries(bytes, pos + width + 5 + 2 * chars, width)

\* the column count field of a metadata token
CountField(bytes) == bytes[2] + 256 * bytes[3]

\* bit (a power of two) is set in flags
HasFlag(flags, bit) == (flags \div bit) % 2 = 1

\* C4: in the metadata getColMetaData returns, a column registered with
\* nullable true has the nullable bit and not nullable-unknown; one registered
\* without nullable on 7.2 or later has nullable-unknown and not nullable; one
\* registered with nullable false has neither; never both bits, and always
\* the updateable read/write bit.
C4_FlagsFollowNullable ==
    call.op = "getColMetaData" =>
        LET entries == ReadEntries(call.result, 4, UserTypeWidth(options.tdsVersion))
        IN  /\ Len(entries) = Len(registered)
            /\ \A i \in DOMAIN registered :
                   LET given == registered[i].opts.nullable
                       isNullable == HasFlag(entries[i].flags, FLAGS_nullable)
                       isUnknown == HasFlag(entries[i].flags, FLAGS_nullableUnknown)
                   IN  /\ given = Bool(TRUE) => isNullable /\ ~isUnknown
                       /\ (given = Undef /\ options.tdsVersion \in {"7_2", "7_3_A", "7_3_B", "7_4"})
                              => isUnknown /\ ~isNullable
                       /\ given = Bool(FALSE) => ~isNullable /\ ~isUnknown
                       /\ ~(isNullable /\ isUnknown)
                       /\ HasFlag(entries[i].flags, FLAGS_updateableReadWrite)

\* the name of a column as the metadata token carries it
NameOnWire(name) ==
    CASE name = "a" -> <<97, 0>>
      [] name = "b" -> <<98, 0>>

\* C7: the metadata token's count field is the number of successful addColumn
\* calls, and its i-th entry carries the flags, type information and name of
\* the i-th of those calls.
C7_MetadataInInsertionOrder ==
    call.op = "getColMetaData" =>
        LET entries == ReadEntries(call.result, 4, UserTypeWidth(options.tdsVersion))
        IN  /\ call.result[1] = TOKEN_TYPE_COLMETADATA
            /\ CountField(call.result) = Len(registered)
            /\ Len(entries) = Len(registered)
            /\ \A i \in DOMAIN registered :
                   /\ entries[i].name = NameOnWire(registered[i].name)
                   /\ entries[i].typeInfo = <<38, 1>>
                   /\ entries[i].flags =
                          IF registered[i].opts.nullable = Bool(FALSE) THEN 4 ELSE 5

\* getColMetaData was called with two columns of different names and flags
C7_Witness ==
    /\ call.op = "getColMetaData"
    /\ Len(registered) = 2
    /\ registered[1].name = "b"
    /\ registered[2].name = "a"
    /\ registered[1].opts.nullable = Bool(FALSE)
    /\ registered[2].opts.nullable = Bool(TRUE)

\* C8: the completion token getPayload builds is 9 bytes before 7.2 and 13
\* bytes from 7.2 on, and its buffer was allocated with exactly that size.
C8_DoneTokenSize ==
    call.op = "getPayload" =>
        /\ Len(payload.tBuf.data) = (IF options.tdsVersion = "7_1" THEN 9 ELSE 13)
        /\ payload.tBuf.size = Len(payload.tBuf.data)
        /\ payload.tBuf.allocs = 1

\* getPayload built a 13-byte completion token on protocol version 7.2
C8_Witness ==
    /\ call.op = "getPayload"
    /\ options.tdsVersion = "7_2"
    /\ Len(payload.tBuf.data) = 13

\* the options clause for each combination of the four options
ExpectedOptionsSql(cc, ft, kn, tl) ==
    CASE ~cc /\ ~ft /\ ~kn /\ ~tl -> ""
      [] ~cc /\ ~ft /\ ~kn /\ tl -> " WITH (TABLOCK)"
      [] ~cc /\ ~ft /\ kn /\ ~tl -> " WITH (KEEP_NULLS)"
      [] ~cc /\ ~ft /\ kn /\ tl -> " WITH (KEEP_NULLS,TABLOCK)"
      [] ~cc /\ ft /\ ~kn /\ ~tl -> " WITH (FIRE_TRIGGERS)"
      [] ~cc /\ ft /\ ~kn /\ tl -> " WITH (FIRE_TRIGGERS,TABLOCK)"
      [] ~cc /\ ft /\ kn /\ ~tl -> " WITH (FIRE_TRIGGERS,KEEP_NULLS)"
      [] ~cc /\ ft /\ kn /\ tl -> " WITH (FIRE_TRIGGERS,KEEP_NULLS,TABLOCK)"
      [] cc /\ ~ft /\ ~kn /\ ~tl -> " WITH (CHECK_CONSTRAINTS)"
      [] cc /\ ~ft /\ ~kn /\ tl -> " WITH (CHECK_CONSTRAINTS,TABLOCK)"
      [] cc /\ ~ft /\ kn /\ ~tl -> " WITH (CHECK_CONSTRAINTS,KEEP_NULLS)"
      [] cc /\ ~ft /\ kn /\ tl -> " WITH (CHECK_CONSTRAINTS,KEEP_NULLS,TABLOCK)"
      [] cc /\ ft /\ ~kn /\ ~tl -> " WITH (CHECK_CONSTRAINTS,FIRE_TRIGGERS)"
      [] cc /\ ft /\ ~kn /\ tl -> " WITH (CHECK_CONSTRAINTS,FIRE_TRIGGERS,TABLOCK)"
      [] cc /\ ft /\ kn /\ ~tl -> " WITH (CHECK_CONSTRAINTS,FIRE_TRIGGERS,KEEP_NULLS)"
      [] cc /\ ft /\ kn /\ tl -> " WITH (CHECK_CONSTRAINTS,FIRE_TRIGGERS,KEEP_NULLS,TABLOCK)"

\* C10: the options clause getOptionsSql returns is empty when no option is
\* set, and otherwise ' WITH (...)' with exactly the set options, in the order
\* CHECK_CONSTRAINTS, FIRE_TRIGGERS, KEEP_NULLS, TABLOCK, joined by commas.
C10_OptionsClause ==
    call.op = "getOptionsSql" =>
        call.result = ExpectedOptionsSql(bulkOptions.checkConstraints, bulkOptions.fireTriggers,
                                         bulkOptions.keepNulls, bulkOptions.lockTable)

\* getOptionsSql was called with fireTriggers and lockTable set
C10_Witness ==
    /\ call.op = "getOptionsSql"
    /\ bulkOptions = [checkConstraints |-> FALSE, fireTriggers |-> TRUE,
                      keepNulls |-> FALSE, lockTable |-> TRUE]
    /\ call.result = " WITH (FIRE_TRIGGERS,TABLOCK)"

\* C11: the constructor returns an instance only when each of the four bulk
\* options is omitted or a boolean, an omitted one being false; given any
\* other value for one of them it throws a type error and makes no instance.
C11_ConstructorChecksOptions ==
    (call.op = "constructor") =>
        LET given == call.given
            supplied(v) == v.kind # "undef"
            bad == \E f \in DOMAIN given : supplied(given[f]) /\ given[f].kind # "bool"
        IN  /\ call.threw <=> bad
            /\ bad => call.error = "TypeError" /\ ~HasInstance
            /\ ~bad => /\ HasInstance
                       /\ \A f \in DOMAIN given :
                              bulkOptions[f] = (supplied(given[f]) /\ given[f].bool)

\* the constructor threw because lockTable alone was not a boolean
C11_Witness ==
    /\ call.op = "constructor"
    /\ call.threw
    /\ call.given = [checkConstraints |-> Undef, fireTriggers |-> Bool(TRUE),
                     keepNulls |-> Bool(FALSE), lockTable |-> Num(1)]
    /\ ~HasInstance

\* the bytes of one TinyInt value
EncodedValue(v) == IF v.kind \in {"undef", "null"} THEN <<0>> ELSE <<1, v.num>>

\* the bytes of a row of values
RECURSIVE EncodedValues(_)
EncodedValues(values) ==
    IF values = <<>> THEN <<>> ELSE EncodedValue(Head(values)) \o EncodedValues(Tail(values))

\* the number of rows of n values each that bytes is made of, -1 when it is
\* not made of such rows
RECURSIVE RowCount(_, _)
RowCount(bytes, n) ==
    IF bytes = <<>> THEN 0
    ELSE IF bytes[1] # TOKEN_TYPE_ROW THEN -1
    ELSE LET rest == SkipValues(Tail(bytes), n)
         IN  IF rest = <<-1>> \/ RowCount(rest, n) = -1 THEN -1 ELSE 1 + RowCount(rest, n)

\* the number of addRow calls that returned
SuccessfulRows == Cardinality({i \in DOMAIN rowLog : ~rowLog[i]})

\* C12: a successful addRow appends one row marker and one encoded value per
\* column in column order behind the bytes that were there, and after n
\* successful addRow calls the row buffer holds exactly n rows.
C12_RowsAppended ==
    /\ [](RowCount(rowsData.data, Len(columns)) = SuccessfulRows)
    /\ [][(Len(rowLog') = Len(rowLog) + 1 /\ ~call'.threw) =>
             /\ Len(call'.values) = Len(columns)
             /\ rowsData'.data =
                    rowsData.data \o <<TOKEN_TYPE_ROW>> \o EncodedValues(call'.values)]_vars

\* C13: getColMetaData and getPayload leave the column list, the by-name
\* index, the row buffer and the latch as they were, and an addColumn call
\* that follows a getPayload call with no rows is not rejected.
C13_ReadersChangeNothing ==
    [][/\ call'.op \in {"getColMetaData", "getPayload"} =>
             UNCHANGED <<columns, columnsByName, rowsData, firstRowWritten>>
       /\ (call.op = "getPayload" /\ Len(rowLog) = 0 /\ call'.op = "addColumn") =>
             (~call'.threw /\ Len(columns') = Len(columns) + 1)]_vars

\* getPayload was called with a column and no rows, and the latch is not set
C13_Witness ==
    /\ call.op = "getPayload"
    /\ payload.rows = <<>>
    /\ Len(columns) = 1
    /\ Len(rowLog) = 0
    /\ ~firstRowWritten

\* C16: the completion token of a payload is the marker followed by zero
\* bytes only (status, current command and row count all zero), whatever the
\* number of addRow calls, and it is the tail of the payload.
C16_DoneTokenAllZero ==
    call.op = "getPayload" =>
        LET done == payload.tBuf.data
            bytes == payload.buffer.data
        IN  /\ done[1] = TOKEN_TYPE_DONE
            /\ \A i \in 2..Len(done) : done[i] = 0
            /\ Len(done) \in {9, 13}
            /\ SubSeq(bytes, Len(bytes) - Len(done) + 1, Len(bytes)) = done

\* getPayload was called after two addRow calls that returned
C16_Witness ==
    /\ call.op = "getPayload"
    /\ rowLog = <<FALSE, FALSE>>
    /\ Len(columns) > 0
    /\ Len(payload.rows) > 4

\* C19: an addRow call sets the latch even when it throws in an encoder:
\* when every addRow call so far has thrown, the latch is set all the same
\* and an addColumn call is rejected.
C19_FailedAddRowFreezes ==
    [][(Len(rowLog') > 0 /\ \A i \in DOMAIN rowLog' : rowLog'[i]) =>
          /\ firstRowWritten'
          /\ (call'.op = "addColumn" => call'.threw /\ call'.error = "state")]_vars

\* addColumn was rejected after a single addRow call, which threw and left
\* a row marker and a length byte in the buffer
C19_Witness ==
    /\ call.op = "addColumn"
    /\ call.threw
    /\ call.error = "state"
    /\ rowLog = <<TRUE>>
    /\ rowsData.data = <<TOKEN_TYPE_ROW, 1>>

\* the position of the last column of cols that is named n
LastNamed(cols, n) ==
    CHOOSE i \in DOMAIN cols :
        /\ cols[i].name = n
        /\ \A j \in DOMAIN cols : cols[j].name = n => j <= i

\* C20: the by-name index holds exactly the names of the columns in the
\* list, each name maps to the column registered last under it, and every
\* registered column, duplicates of a name included, is in the list.
C20_IndexFollowsColumns ==
    /\ DOMAIN columnsByName = {columns[i].name : i \in DOMAIN columns}
    /\ \A n \in DOMAIN columnsByName : columnsByName[n] = columns[LastNamed(columns, n)]
    /\ Len(columns) = Len(registered)
    /\ \A i \in DOMAIN columns : columns[i].name = registered[i].name

\* two different columns were registered under one name
C20_Witness ==
    /\ Len(columns) = 2
    /\ columns[1].name = columns[2].name
    /\ columns[1] # columns[2]
    /\ DOMAIN columnsByName = {columns[1].name}
    /\ columnsByName[columns[1].name] = columns[2]

\* the resolver of type for k, one of "length", "precision", "scale"
ResolverOf(type, k) ==
    CASE k = "length" -> type.resolveLength
      [] k = "precision" -> type.resolvePrecision
      [] k = "scale" -> type.resolveScale

\* type qualifies for the resolution of k: the two bits 0x30 of its id are
\* 0x20 for the length, hasPrecision and hasScale for the other two
Qualifies(type, k) ==
    CASE k = "length" -> (type.id \div 16) % 4 = 2
      [] k = "precision" -> type.hasPrecision
      [] k = "scale" -> type.hasScale

\* a value was supplied for an option: it is neither undefined nor null
Supplied(v) == v.kind \notin {"undef", "null"}

\* what addColumn(name, type, opts) is to store for k
StoredFor(type, opts, k) ==
    IF ~Supplied(opts[k]) /\ Qualifies(type, k) /\ ResolverOf(type, k).has
    THEN Num(ResolverOf(type, k).result)
    ELSE opts[k]

\* C15: a registered column holds the length, precision and scale it was
\* given, or the resolver's result where none was given and the type
\* qualifies and offers the resolver, in every later state; addColumn calls
\* each resolver at most once and only in that case, and addRow and
\* getPayload leave the columns as they are.
C15_ResolvedOnceAtRegistration ==
    /\ [](/\ \A i \in DOMAIN columns : \A k \in {"length", "precision", "scale"} :
               columns[i][k] = StoredFor(TypeNamed(registered[i].type), registered[i].opts, k)
          /\ call.op = "addColumn" =>
               /\ \A i, j \in DOMAIN call.invoked : call.invoked[i] = call.invoked[j] => i = j
               /\ \A i \in DOMAIN call.invoked :
                     LET k == call.invoked[i]
                         type == TypeNamed(call.args.type)
                     IN  /\ ~Supplied(call.args.opts[k])
                         /\ Qualifies(type, k)
                         /\ ResolverOf(type, k).has
               /\ call.error = "state" => call.invoked = <<>>)
    /\ [][call'.op \in {"addRow", "getPayload"} => columns' = columns]_vars

\* a column with a resolved length and one with the sizes it was given are
\* in a payload with a row
C15_Witness ==
    /\ call.op = "getPayload"
    /\ Len(rowLog) > 0
    /\ Len(columns) = 2
    /\ registered[1].type = "VarChar" /\ registered[1].opts = NoColumnOptions
    /\ columns[1].length = Num(8000)
    /\ registered[2].type = "VarChar" /\ registered[2].opts = GivenSizes
    /\ columns[2].length = Num(10) /\ columns[2].precision = Num(5)

\* C17: an addColumn call in which a resolver throws ends with that failure
\* and leaves the column list, the by-name index, the row buffer and the
\* latch as they were, so later calls find the instance as it was; a call
\* that is not rejected and calls a throwing resolver always ends so.
C17_ResolverFailureRegistersNothing ==
    [][call'.op = "addColumn" =>
          /\ (call'.threw /\ call'.error = "type") =>
                /\ UNCHANGED <<columns, columnsByName, rowsData, firstRowWritten, registered>>
                /\ call'.invoked # <<>>
                /\ ResolverOf(TypeNamed(call'.args.type),
                              call'.invoked[Len(call'.invoked)]).throws
          /\ (\E i \in DOMAIN call'.invoked :
                 ResolverOf(TypeNamed(call'.args.type), call'.invoked[i]).throws) =>
                (call'.threw /\ call'.error = "type")]_vars

\* the scale resolver threw after the precision resolver had run, with one
\* column registered before
C17_Witness ==
    /\ call.op = "addColumn"
    /\ call.threw
    /\ call.error = "type"
    /\ call.args.type = "FailingScale"
    /\ call.invoked = <<"precision", "scale">>
    /\ Len(columns) = 1
    /\ DOMAIN columnsByName = {"a"}

\* C14: two objects given the same connection options and the same
\* addColumn and addRow calls, with different bulk options, return the same
\* payload bytes and hold the same columns and row bytes.
C14_PayloadIgnoresBulkOptions ==
    /\ bulkOptions # other.bulkOptions
    /\ columns = other.columns
    /\ rowsData = other.rowsData
    /\ call.op = "getPayload" =>
          /\ other.call.op = "getPayload"
          /\ payload.buffer = other.payload.buffer
          /\ payload.length = other.payload.length

\* both objects returned a payload with a row, and their SQL options differ
C14_Witness ==
    /\ call.op = "getPayload"
    /\ other.call.op = "getPayload"
    /\ Len(columns) > 0
    /\ Len(rowLog) > 0 /\ ~rowLog[1]
    /\ other.bulkOptions.keepNulls
    /\ OptionsSql(bulkOptions) # OptionsSql(other.bulkOptions)

\* the fields of the first object that its methods write
FirstFields == <<columns, columnsByName, rowsData, firstRowWritten>>

\* the fields of the second object that its methods write
OtherFields == <<other.columns, other.columnsByName, other.rowsData, other.firstRowWritten>>

\* C18: a call on one of two objects leaves the column list, the row buffer
\* and the latch of the other as they were, whatever the order of the calls,
\* and addColumn is rejected on an object only after an addRow call on that
\* same object.
C18_InstancesDoNotInterfere ==
    /\ [][/\ <<call, payload>> # <<call, payload>>' => OtherFields' = OtherFields
          /\ <<other.call, other.payload>> # <<other.call, other.payload>>' =>
                FirstFields' = FirstFields]_vars
    /\ [](/\ (call.op = "addColumn" /\ call.threw) => Len(rowLog) > 0
          /\ (other.call.op = "addColumn" /\ other.call.threw) => Len(other.rowLog) > 0)

\* the first object has a row and rejected no call, and the second took a
\* column after that
C18_Witness ==
    /\ Len(rowLog) > 0
    /\ firstRowWritten
    /\ ~other.firstRowWritten
    /\ other.call.op = "addColumn"
    /\ ~other.call.threw
    /\ Len(other.columns) = 2
    /\ Len(columns) = 1

====
